---- MODULE Spec2Model ----
(***************************************************************************)
(* DepthwiseConvPlus1x1Conv (TFLite GPU delegate, OpenCL): the eligibility *)
(* check, the packing of the constants buffer, the generation of the fused *)
(* kernel, the creation of the operation and the dispatch of the kernel    *)
(* over the grid of GetGridSize.                                           *)
(*                                                                         *)
(* Floats are modelled by integers: every value the model computes is an   *)
(* integer, and Flt rounds it as the kernel's float type would.            *)
(***************************************************************************)
EXTENDS Integers, Sequences, FiniteSets, TLC

VARIABLES
    pc,            \* position of the caller: "start", "create", "unfused", "dispatch", "failed", "done"
    definition,    \* OperationDef: precision, storage type of src_tensors[0], batch axis of dst_tensors[0]
    dw_attr,       \* DepthwiseConvolution2DAttributes
    conv_attr,     \* Convolution2DAttributes
    src_,          \* the source tensor bound at dispatch
    dst_,          \* the destination tensor: its shape and what was written to it
    supported,     \* what IsDepthwiseConvPlus1x1ConvSupported returned
    result,        \* the caller's DepthwiseConvPlus1x1Conv object (*result)
    status,        \* what CreateDepthwiseConvPlus1x1Conv returned
    ghost,         \* ghost: the calls of CreateReadOnlyBuffer, gpu_data, the generator's counter
    gid,           \* next work item of the dispatch (linear over the global size)
    last           \* ghost: the record of the last work item that ran

vars == <<pc, definition, dw_attr, conv_attr, src_, dst_, supported, result,
          status, ghost, gid, last>>

-----------------------------------------------------------------------------
(* Bounds of the inputs the model enumerates. *)

MaxK == 2          \* depthwise kernel height and width range over 1..MaxK
MaxCh == 5         \* channel counts range over 1..MaxCh
MaxW == 2          \* destination width ranges over 1..MaxW
MaxH == 2          \* destination height ranges over 1..MaxH
MaxB == 2          \* batch ranges over 1..MaxB

-----------------------------------------------------------------------------
(* util.h and shape.h helpers the file calls. *)

DivideRoundUp(n, divisor) == (n + divisor - 1) \div divisor

AlignByN(number, n) == DivideRoundUp(number, n) * n

\* OHWI::LinearIndex({o, h, w, i}): row-major over (o, h, w, i)
LinearIndex(shape, o, h, w, i) == ((o * shape.h + h) * shape.w + w) * shape.i + i

RECURSIVE Flatten(_)
Flatten(ss) == IF ss = <<>> THEN <<>> ELSE Head(ss) \o Flatten(Tail(ss))

\* for (k = 0; k < n; ++k) body(k), each body pushing a run of values
For(n, body(_)) == Flatten([k \in 1..n |-> body(k - 1)])

Abs(v) == IF v < 0 THEN -v ELSE v

RECURSIVE Pow2(_)
Pow2(e) == IF e = 0 THEN 1 ELSE 2 * Pow2(e - 1)

RECURSIVE Log2Floor(_)
Log2Floor(m) == IF m < 2 THEN 0 ELSE 1 + Log2Floor(m \div 2)

HalfInf == Pow2(16)   \* stands for the half infinity (magnitudes from 65520 round to it)

\* float -> half (round to nearest, ties to even; 11 significant bits)
ToHalf(v) ==
    LET m == Abs(v)
        e == Log2Floor(m)
        step == IF e <= 10 THEN 1 ELSE Pow2(e - 10)
        q == m \div step
        r == m % step
        up == (2 * r > step) \/ (2 * r = step /\ q % 2 = 1)
        rounded == IF up THEN (q + 1) * step ELSE q * step
        mag == IF rounded >= HalfInf THEN HalfInf ELSE rounded
    IN  IF v < 0 THEN -mag ELSE mag

Float32Exact == Pow2(24)   \* integers up to 2^24 are exact in a float

\* the value a float computation leaves in a variable of the kernel's FLT type
Flt(precision, v) == IF precision = "F32" THEN v ELSE ToHalf(v)

-----------------------------------------------------------------------------
(* The attribute records.  weights.data and bias.data are indexed from 0. *)

Seeds == {"ramp", "small", "big"}

\* the value at index k of a tensor: distinct per index ("ramp"), small with
\* zeros and negatives ("small"), or not representable in a half ("big", biases)
Value(seed, salt, k, is_bias) ==
    CASE seed = "ramp" -> IF salt > 0 THEN salt + k ELSE salt - k
      [] seed = "big" /\ is_bias -> 2049 + 2 * k
      [] OTHER -> ((7 * k + Abs(salt)) % 5) - 2

Tensor(shape, seed, salt) ==
    [shape |-> shape,
     data |-> [k \in 0..(shape.o * shape.h * shape.w * shape.i - 1) |->
                  Value(seed, salt, k, FALSE)]]

Bias(v, seed, salt) ==
    [shape |-> [v |-> v], data |-> [k \in 0..(v - 1) |-> Value(seed, salt, k, TRUE)]]

HW(h, w) == [h |-> h, w |-> w]

Attr(shape, bias_v, strides, dilations, prepended, appended, seed, salt) ==
    [weights |-> Tensor(shape, seed, 10 * salt),
     bias |-> Bias(bias_v, seed, salt),
     strides |-> strides,
     dilations |-> dilations,
     padding |-> [prepended |-> prepended, appended |-> appended]]

OHWI(o, h, w, i) == [o |-> o, h |-> h, w |-> w, i |-> i]

\* a pointwise convolution the checker's legality conditions accept
GoodConv(o, i, bias_v, seed) ==
    Attr(OHWI(o, 1, 1, i), bias_v, HW(1, 1), HW(1, 1), HW(0, 0), HW(0, 0), seed, -1)

-----------------------------------------------------------------------------
(* UploadWeights, lines 54-144. *)

\* lines 66-73
dw_bias_loading(dw) ==
    LET dw_dst_ch_aligned == AlignByN(dw.weights.shape.i, 4)
    IN  For(dw_dst_ch_aligned,
            LAMBDA i : IF i < dw.bias.shape.v THEN <<dw.bias.data[i]>> ELSE <<0>>)

dw_weights_loading_xy(dw) ==
    LET dw_dst_ch_aligned == AlignByN(dw.weights.shape.i, 4)
    IN  For(dw.weights.shape.w, LAMBDA x :
        For(dw.weights.shape.h, LAMBDA y :
        For(dw_dst_ch_aligned \div 4, LAMBDA d :
        For(4, LAMBDA i :
            LET d_ch == d * 4 + i
            IN  IF d_ch < dw.weights.shape.i
                THEN <<dw.weights.data[LinearIndex(dw.weights.shape, 0, y, x, d_ch)]>>
                ELSE <<0>>))))

\* lines 74-90
dw_weights_loading(dw) ==
    LET dw_dst_ch_aligned == AlignByN(dw.weights.shape.i, 4)
    IN  For(dw.weights.shape.h, LAMBDA y :
        For(dw.weights.shape.w, LAMBDA x :
        For(dw_dst_ch_aligned \div 4, LAMBDA d :
        For(4, LAMBDA i :
            LET d_ch == d * 4 + i
            IN  IF d_ch < dw.weights.shape.i
                THEN <<dw.weights.data[LinearIndex(dw.weights.shape, 0, y, x, d_ch)]>>
                ELSE <<0>>))))

\* lines 91-98
conv_bias_loading(conv) ==
    LET conv_dst_ch_aligned == AlignByN(conv.weights.shape.o, 4)
    IN  For(conv_dst_ch_aligned,
            LAMBDA i : IF i < conv.bias.shape.v THEN <<conv.bias.data[i]>> ELSE <<0>>)

conv_weights_loading_ij(conv) ==
    LET conv_src_ch_aligned == AlignByN(conv.weights.shape.i, 4)
        conv_dst_ch_aligned == AlignByN(conv.weights.shape.o, 4)
    IN  For(conv_dst_ch_aligned \div 4, LAMBDA d :
        For(conv_src_ch_aligned \div 4, LAMBDA s :
        For(4, LAMBDA i :
        For(4, LAMBDA j :
            LET s_ch == s * 4 + j
                d_ch == d * 4 + i
            IN  IF s_ch < conv.weights.shape.i /\ d_ch < conv.weights.shape.o
                THEN <<conv.weights.data[LinearIndex(conv.weights.shape, d_ch, 0, 0, s_ch)]>>
                ELSE <<0>>))))

\* lines 99-117
conv_weights_loading(conv) ==
    LET conv_src_ch_aligned == AlignByN(conv.weights.shape.i, 4)
        conv_dst_ch_aligned == AlignByN(conv.weights.shape.o, 4)
    IN  For(conv_dst_ch_aligned \div 4, LAMBDA d :
        For(conv_src_ch_aligned \div 4, LAMBDA s :
        For(4, LAMBDA j :
        For(4, LAMBDA i :
            LET s_ch == s * 4 + j
                d_ch == d * 4 + i
            IN  IF s_ch < conv.weights.shape.i /\ d_ch < conv.weights.shape.o
                THEN <<conv.weights.data[LinearIndex(conv.weights.shape, d_ch, 0, 0, s_ch)]>>
                ELSE <<0>>))))

\* lines 57-65: the capacity gpu_data.reserve asks for
reserved(dw, conv) ==
    LET dw_dst_ch_aligned == AlignByN(dw.weights.shape.i, 4)
        dw_weights_count == dw_dst_ch_aligned * dw.weights.shape.h * dw.weights.shape.w
        conv_src_ch_aligned == AlignByN(conv.weights.shape.i, 4)
        conv_dst_ch_aligned == AlignByN(conv.weights.shape.o, 4)
        conv_weights_count == conv_src_ch_aligned * conv_dst_ch_aligned
    IN  dw_dst_ch_aligned + dw_weights_count + conv_dst_ch_aligned + conv_weights_count

gpu_data_short(dw, conv) ==
    dw_bias_loading(dw) \o dw_weights_loading(dw) \o conv_weights_loading(conv)

\* lines 63-117: gpu_data after the four loading loops
gpu_data(dw, conv) ==
    dw_bias_loading(dw) \o dw_weights_loading(dw)
        \o conv_bias_loading(conv) \o conv_weights_loading(conv)

\* lines 120-134: the elements handed to CreateReadOnlyBuffer
buffer_data(precision, data) ==
    IF precision = "F32" THEN data ELSE [i \in 1..Len(data) |-> ToHalf(data[i])]

-----------------------------------------------------------------------------
(* GenerateCode, lines 146-242.  The kernel text is modelled as the        *)
(* sequence of its statements; a statement that names constants[k] carries *)
(* k, one that names dw_res_<d>, conv_res_<d> or a slice carries d, and a   *)
(* pointwise accumulate carries the dw_res index s it reads.               *)

Stmt(op, d, s, k) == [op |-> op, d |-> d, s |-> s, k |-> k]

\* c += <a statement that does not name constants[...]>
Emit(g, op, d, s) ==
    [c |-> Append(g.c, Stmt(op, d, s, -1)), weights_counter |-> g.weights_counter]

EmitConstNoIncrement(g, op, d, s) ==
    [c |-> Append(g.c, Stmt(op, d, s, g.weights_counter)),
     weights_counter |-> g.weights_counter]

\* c += <a statement naming constants[std::to_string(weights_counter++)]>
EmitConst(g, op, d, s) ==
    [c |-> Append(g.c, Stmt(op, d, s, g.weights_counter)),
     weights_counter |-> g.weights_counter + 1]

\* weights_counter starts at 0 and only grows, so this holds of every generator
\* state; the loops test it on entry, which has TLC evaluate the statements
\* appended so far instead of keeping them pending
Started(g) == g.weights_counter >= 0

manual_clamp_buffer_only(op_def) == op_def.src_storage_type = "BUFFER"

\* lines 161-164
manual_clamp(op_def) ==
    op_def.src_storage_type = "BUFFER" \/ op_def.src_storage_type = "IMAGE_BUFFER"

\* lines 186-189
RECURSIVE LoopDwInit(_, _, _)
LoopDwInit(g, d, intermediate_depth) ==
    IF Started(g) /\ d < intermediate_depth
    THEN LoopDwInit(EmitConst(g, "dw_init", d, -1), d + 1, intermediate_depth)
    ELSE g

\* lines 210-216
RECURSIVE LoopDwDepth(_, _, _, _)
LoopDwDepth(g, d, intermediate_depth, clamp) ==
    IF Started(g) /\ d < intermediate_depth
    THEN LoopDwDepth(
             EmitConst(Emit(g, IF clamp THEN "read_masked" ELSE "read", d, -1),
                       "dw_acc", d, -1),
             d + 1, intermediate_depth, clamp)
    ELSE g

\* lines 203-217
RECURSIVE LoopKx(_, _, _, _, _)
LoopKx(g, kx, w, intermediate_depth, clamp) ==
    IF Started(g) /\ kx < w
    THEN LET g1 == Emit(g, "x_c", kx, -1)
             g2 == IF clamp THEN Emit(Emit(g1, "x_in", -1, -1), "x_clamp", -1, -1)
                   ELSE g1
         IN  LoopKx(LoopDwDepth(g2, 0, intermediate_depth, clamp),
                    kx + 1, w, intermediate_depth, clamp)
    ELSE g

\* lines 197-218
RECURSIVE LoopKy(_, _, _, _, _, _)
LoopKy(g, ky, h, w, intermediate_depth, clamp) ==
    IF Started(g) /\ ky < h
    THEN LET g1 == Emit(g, "y_c", ky, -1)
             g2 == IF clamp THEN Emit(Emit(g1, "y_in", -1, -1), "y_clamp", -1, -1)
                   ELSE g1
         IN  LoopKy(LoopKx(g2, 0, w, intermediate_depth, clamp),
                    ky + 1, h, w, intermediate_depth, clamp)
    ELSE g

\* lines 219-222
RECURSIVE LoopConvInit(_, _, _)
LoopConvInit(g, d, result_depth) ==
    IF Started(g) /\ d < result_depth
    THEN LoopConvInit(EmitConst(g, "conv_init", d, -1), d + 1, result_depth)
    ELSE g

\* lines 224-235
RECURSIVE LoopConvSrc(_, _, _, _)
LoopConvSrc(g, d, s, intermediate_depth) ==
    IF Started(g) /\ s < intermediate_depth
    THEN LoopConvSrc(
             EmitConst(EmitConst(EmitConst(EmitConst(g,
                 "conv_acc_x", d, s), "conv_acc_y", d, s), "conv_acc_z", d, s),
                 "conv_acc_w", d, s),
             d, s + 1, intermediate_depth)
    ELSE g

\* lines 223-238
RECURSIVE LoopConvDst(_, _, _, _)
LoopConvDst(g, d, result_depth, intermediate_depth) ==
    IF Started(g) /\ d < result_depth
    THEN LoopConvDst(Emit(LoopConvSrc(g, d, 0, intermediate_depth), "write", d, -1),
                     d + 1, result_depth, intermediate_depth)
    ELSE g

GenerateArgs_positive_padding(op_def, dw) ==
    [src_tensor |-> [storage_type |-> op_def.src_storage_type, address_mode |-> "ZERO"],
     dst_tensor |-> [has_batch |-> op_def.dst_has_batch],
     stride_x |-> dw.strides.w,
     padding_x |-> dw.padding.prepended.w,
     dilation_x |-> dw.dilations.w,
     stride_y |-> dw.strides.h,
     padding_y |-> dw.padding.prepended.h,
     dilation_y |-> dw.dilations.h]

\* lines 149-159: what GenerateCode registers in args_
GenerateArgs(op_def, dw) ==
    [src_tensor |-> [storage_type |-> op_def.src_storage_type, address_mode |-> "ZERO"],
     dst_tensor |-> [has_batch |-> op_def.dst_has_batch],
     stride_x |-> dw.strides.w,
     padding_x |-> -dw.padding.prepended.w,
     dilation_x |-> dw.dilations.w,
     stride_y |-> dw.strides.h,
     padding_y |-> -dw.padding.prepended.h,
     dilation_y |-> dw.dilations.h]

\* lines 166-241: the statements of the kernel, in the order they are appended
GenerateCode(op_def, dw, result_depth) ==
    LET clamp == manual_clamp(op_def)
        g0 == [c |-> <<>>, weights_counter |-> 0]
        g1 == IF op_def.dst_has_batch
              THEN Emit(g0, "x_b_from_linear_id", -1, -1)
              ELSE Emit(g0, "x_from_global_id", -1, -1)
        g2 == Emit(Emit(Emit(g1, "y_from_global_id", -1, -1),
                        "return_if_outside", -1, -1), "constants_ptr", -1, -1)
        intermediate_depth == DivideRoundUp(dw.weights.shape.i, 4)
        g3 == LoopDwInit(g2, 0, intermediate_depth)
        g4 == Emit(Emit(Emit(g3, "x_offseted", -1, -1), "y_offseted", -1, -1),
                   "decl_x_c_y_c", -1, -1)
        g5 == IF clamp THEN Emit(g4, "decl_x_in_y_in", -1, -1) ELSE g4
        g6 == Emit(g5, "decl_src", -1, -1)
        g7 == LoopKy(g6, 0, dw.weights.shape.h, dw.weights.shape.w,
                     intermediate_depth, clamp)
        g8 == LoopConvInit(g7, 0, result_depth)
        g9 == LoopConvDst(g8, 0, result_depth, intermediate_depth)
    IN  [c |-> g9.c, weights_counter |-> g9.weights_counter]

-----------------------------------------------------------------------------
(* One work item of the generated kernel: the statements of code_ run in   *)
(* order against the bound arguments.                                      *)

FLT4(x, y, z, w) == <<x, y, z, w>>

Put(f, key, v) == [x \in (DOMAIN f) \cup {key} |-> IF x = key THEN v ELSE f[x]]

Clamp(v, lo, hi) == IF v < lo THEN lo ELSE IF v > hi THEN hi ELSE v

TextureTypes == {"TEXTURE_2D", "TEXTURE_3D", "TEXTURE_ARRAY", "SINGLE_TEXTURE_2D"}

StorageTypes == {"BUFFER", "IMAGE_BUFFER"} \cup TextureTypes

\* args.src_tensor.Read(x, y, slice) at the batch set by SetBatchRef: a texture
\* with TextureAddressMode::ZERO reads zero outside the tensor; a buffer read
\* outside the tensor reads whatever lies there
TensorRead(desc, tensor, x, y, b, d, garbage) ==
    IF x >= 0 /\ x < tensor.shape.w /\ y >= 0 /\ y < tensor.shape.h
    THEN tensor.data[<<x, y, b, d>>]
    ELSE IF desc.storage_type \in TextureTypes /\ desc.address_mode = "ZERO"
         THEN FLT4(0, 0, 0, 0)
         ELSE FLT4(garbage, garbage, garbage, garbage)

\* constants[k] of the __constant FLT4* the "constants" buffer is read through;
\* an element past the end of the buffer reads whatever lies there
ConstantsAt(buffer, k, garbage) ==
    IF 4 * k + 4 <= Len(buffer)
    THEN FLT4(buffer[4 * k + 1], buffer[4 * k + 2], buffer[4 * k + 3], buffer[4 * k + 4])
    ELSE FLT4(garbage, garbage, garbage, garbage)

\* acc += v * w on FLT4 values, w taken lane by lane
MulAdd(p, acc, v, w) == [l \in 1..4 |-> Flt(p, acc[l] + Flt(p, v[l] * w[l]))]

Splat(v) == FLT4(v, v, v, v)

Lane(op) == CASE op = "conv_acc_x" -> 1 [] op = "conv_acc_y" -> 2
              [] op = "conv_acc_z" -> 3 [] op = "conv_acc_w" -> 4

ReadsConstants(st) == st.k >= 0

\* the effect of one statement on the work item's variables
Step(env, st, ctx) ==
    LET a == ctx.args
        p == ctx.precision
        counted == IF ReadsConstants(st)
                   THEN [env EXCEPT !.const_reads = Append(@, st.k),
                                    !.oob = @ \/ 4 * st.k + 4 > Len(ctx.constants)]
                   ELSE env
        cst == ConstantsAt(ctx.constants, st.k, ctx.garbage)
    IN  CASE st.op = "x_b_from_linear_id" ->
               [env EXCEPT !.X = ctx.gid0 \div ctx.dst_shape.b,
                           !.B = ctx.gid0 % ctx.dst_shape.b]
          [] st.op = "x_from_global_id" -> [env EXCEPT !.X = ctx.gid0]
          [] st.op = "y_from_global_id" -> [env EXCEPT !.Y = ctx.gid1]
          [] st.op = "return_if_outside" ->
               [env EXCEPT !.returned = env.X >= ctx.dst_shape.w \/ env.Y >= ctx.dst_shape.h]
          [] st.op = "dw_init" -> [counted EXCEPT !.dw_res = Put(@, st.d, cst)]
          [] st.op = "x_offseted" ->
               [env EXCEPT !.x_offseted = env.X * a.stride_x + a.padding_x]
          [] st.op = "y_offseted" ->
               [env EXCEPT !.y_offseted = env.Y * a.stride_y + a.padding_y]
          [] st.op = "y_c" -> [env EXCEPT !.y_c = env.y_offseted + st.d * a.dilation_y]
          [] st.op = "y_in" -> [env EXCEPT !.y_in = env.y_c >= 0 /\ env.y_c < ctx.src.shape.h]
          [] st.op = "y_clamp" -> [env EXCEPT !.y_c = Clamp(@, 0, ctx.src.shape.h - 1)]
          [] st.op = "x_c" -> [env EXCEPT !.x_c = env.x_offseted + st.d * a.dilation_x]
          [] st.op = "x_in" -> [env EXCEPT !.x_in = env.x_c >= 0 /\ env.x_c < ctx.src.shape.w]
          [] st.op = "x_clamp" -> [env EXCEPT !.x_c = Clamp(@, 0, ctx.src.shape.w - 1)]
          [] st.op = "read" ->
               [env EXCEPT !.src = TensorRead(a.src_tensor, ctx.src, env.x_c, env.y_c,
                                              env.B, st.d, ctx.garbage),
                           !.src_reads = @ + 1]
          [] st.op = "read_masked" ->
               [env EXCEPT !.src =
                               LET v == TensorRead(a.src_tensor, ctx.src, env.x_c, env.y_c,
                                                   env.B, st.d, ctx.garbage)
                                   m == IF env.x_in /\ env.y_in THEN 1 ELSE 0
                               IN  [l \in 1..4 |-> Flt(p, v[l] * m)],
                           !.src_reads = @ + 1]
          [] st.op = "dw_acc" ->
               [counted EXCEPT !.dw_res = Put(@, st.d, MulAdd(p, @[st.d], env.src, cst))]
          [] st.op = "conv_init" -> [counted EXCEPT !.conv_res = Put(@, st.d, cst)]
          [] st.op \in {"conv_acc_x", "conv_acc_y", "conv_acc_z", "conv_acc_w"} ->
               [counted EXCEPT !.conv_res =
                   Put(@, st.d, MulAdd(p, @[st.d], Splat(env.dw_res[st.s][Lane(st.op)]), cst))]
          [] st.op = "write" ->
               [env EXCEPT !.writes = Append(@, [x |-> env.X, y |-> env.Y, b |-> env.B,
                                                 d |-> st.d, v |-> env.conv_res[st.d],
                                                 gid0 |-> ctx.gid0, gid1 |-> ctx.gid1])]
          [] OTHER -> env

\* statements lo..hi of code run in order from env (halving keeps the
\* evaluation shallow); return leaves the rest unexecuted
RECURSIVE ExecRange(_, _, _, _, _)
ExecRange(code, lo, hi, env, ctx) ==
    IF env.returned \/ lo > hi THEN env
    ELSE IF lo = hi THEN Step(env, code[lo], ctx)
    ELSE LET mid == (lo + hi) \div 2
             half == ExecRange(code, lo, mid, env, ctx)
         IN  ExecRange(code, mid + 1, hi, half, ctx)

Exec(code, env, ctx) == ExecRange(code, 1, Len(code), env, ctx)

\* the variables of a work item before its first statement
WorkItem ==
    [X |-> 0, Y |-> 0, B |-> 0, returned |-> FALSE, x_offseted |-> 0, y_offseted |-> 0,
     x_c |-> 0, y_c |-> 0, x_in |-> FALSE, y_in |-> FALSE, src |-> FLT4(0, 0, 0, 0),
     dw_res |-> <<>>, conv_res |-> <<>>, writes |-> <<>>, const_reads |-> <<>>,
     src_reads |-> 0, oob |-> FALSE]

-----------------------------------------------------------------------------
(* The eligibility check, lines 250-268. *)

IsSupported_strict(dw, conv) ==
    LET dw_shape == dw.weights.shape
        conv_shape == conv.weights.shape
        good_dw == dw_shape.o = 1
        good_conv ==
            conv_shape.w = 1 /\ conv_shape.h = 1 /\ conv.dilations.w = 1 /\
            conv.dilations.h = 1 /\ conv.strides.w = 1 /\
            conv.strides.h = 1 /\ conv.padding.prepended.w = 0 /\
            conv.padding.prepended.h = 0 /\ conv.padding.appended.w = 0 /\
            conv.padding.appended.h = 0
        recommended_dw ==
            dw_shape.i < 16 /\ dw_shape.i * dw_shape.h * dw_shape.w <= 3 * 3 * 16
        recommended_conv ==
            conv_shape.o <= 32 /\ conv_shape.i * conv_shape.o < 16 * 32
    IN  good_dw /\ good_conv /\ recommended_dw /\ recommended_conv

IsDepthwiseConvPlus1x1ConvSupported(dw, conv) ==
    LET dw_shape == dw.weights.shape
        conv_shape == conv.weights.shape
        good_dw == dw_shape.o = 1
        good_conv ==
            conv_shape.w = 1 /\ conv_shape.h = 1 /\ conv.dilations.w = 1 /\
            conv.dilations.h = 1 /\ conv.strides.w = 1 /\
            conv.strides.h = 1 /\ conv.padding.prepended.w = 0 /\
            conv.padding.prepended.h = 0 /\ conv.padding.appended.w = 0 /\
            conv.padding.appended.h = 0
        recommended_dw ==
            dw_shape.i <= 16 /\ dw_shape.i * dw_shape.h * dw_shape.w <= 3 * 3 * 16
        recommended_conv ==
            conv_shape.o <= 32 /\ conv_shape.i * conv_shape.o <= 16 * 32
    IN  good_dw /\ good_conv /\ recommended_dw /\ recommended_conv

-----------------------------------------------------------------------------
(* The operation object: constructor, move assignment, UploadWeights,      *)
(* GetGridSize and CreateDepthwiseConvPlus1x1Conv.                         *)

NoArgs == [x \in {} |-> 0]

\* a default-constructed operation, as the caller holds before Create
EmptyOperation ==
    [definition_ |-> [precision |-> "F32", src_storage_type |-> "BUFFER",
                      dst_has_batch |-> FALSE],
     dw_attr_set |-> FALSE, work_group_size_ |-> <<0, 0, 0>>, code_ |-> <<>>,
     args_ |-> NoArgs]

\* lines 30-38
Constructor(op_def, dw, conv) ==
    [definition_ |-> op_def,
     dw_attr_set |-> TRUE,
     work_group_size_ |-> <<8, 8, 1>>,
     code_ |-> GenerateCode(op_def, dw, DivideRoundUp(conv.weights.shape.o, 4)).c,
     args_ |-> GenerateArgs(op_def, dw)]

\* lines 45-52: *this = std::move(operation), operation a temporary
MoveAssign(this, operation) == operation

WithConstantsAlways(op, buffer, outcome) ==
    [op EXCEPT !.args_ =
        Put(@, "constants",
            [access |-> "READ", buffer |-> buffer,
             desc |-> [element_type |-> IF op.definition_.precision = "F32"
                                        THEN "FLOAT32" ELSE "FLOAT16",
                       element_size |-> 4, memory_type |-> "CONSTANT"]])]

\* lines 119-143: the operation after CreateReadOnlyBuffer returned outcome
WithConstants(op, buffer, outcome) ==
    IF outcome # "Ok" THEN op
    ELSE [op EXCEPT !.args_ =
        Put(@, "constants",
            [access |-> "READ", buffer |-> buffer,
             desc |-> [element_type |-> IF op.definition_.precision = "F32"
                                        THEN "FLOAT32" ELSE "FLOAT16",
                       element_size |-> 4, memory_type |-> "CONSTANT"]])]

\* what CreateReadOnlyBuffer can return: success or one of its errors
BufferOutcomes == {"Ok", "UnknownError", "InternalError"}

GetGridSize_no_batch(dst) == <<dst.shape.w, dst.shape.h, 1>>

\* lines 244-248
GetGridSize(dst) == <<dst.shape.w * dst.shape.b, dst.shape.h, 1>>

\* the global size of the dispatch: whole work groups covering the grid
GlobalSize(op, dst) ==
    [i \in 1..3 |-> AlignByN(GetGridSize(dst)[i], op.work_group_size_[i])]

\* lines 54-144: UploadWeights on operation op, CreateReadOnlyBuffer returning outcome
UploadWeights(op, dw, conv, outcome) ==
    LET data == gpu_data(dw, conv)
        fp32_weights == op.definition_.precision = "F32"
        float_size == IF fp32_weights THEN 4 ELSE 2
        buffer == buffer_data(op.definition_.precision, data)
    IN  [op |-> WithConstants(op, buffer, outcome),
         status |-> outcome,
         gpu_data |-> data,
         capacity |-> reserved(dw, conv),
         byte_size |-> float_size * Len(buffer)]

-----------------------------------------------------------------------------
(* The inputs. *)

\* the value the source tensor holds at (x, y, b, channel c); the lanes of the
\* last slice beyond the channel count hold values too
SrcValue(x, y, b, c) == ((x + 2 * y + 3 * c + b) % 3) - 1

Source(w, h, b, c) ==
    [shape |-> [w |-> w, h |-> h, b |-> b, c |-> c],
     data |-> [q \in (0..(w - 1)) \X (0..(h - 1)) \X (0..(b - 1))
                       \X (0..(DivideRoundUp(c, 4) - 1)) |->
                  FLT4(SrcValue(q[1], q[2], q[3], 4 * q[4]),
                       SrcValue(q[1], q[2], q[3], 4 * q[4] + 1),
                       SrcValue(q[1], q[2], q[3], 4 * q[4] + 2),
                       SrcValue(q[1], q[2], q[3], 4 * q[4] + 3))]]

Destination(w, h, b, c) ==
    [shape |-> [w |-> w, h |-> h, b |-> b, c |-> c],
     writes |-> [q \in (0..(w - 1)) \X (0..(h - 1)) \X (0..(b - 1))
                       \X (0..(DivideRoundUp(c, 4) - 1)) |-> <<>>]]

OpDef(precision, storage, has_batch) ==
    [precision |-> precision, src_storage_type |-> storage, dst_has_batch |-> has_batch]

\* (stride, dilation, prepended padding) along one axis
Geoms == {<<1, 1, 0>>, <<2, 1, 1>>, <<1, 2, 1>>}

Depthwise(o, h, w, i, bias_v, gx, gy, seed) ==
    Attr(OHWI(o, h, w, i), bias_v, HW(gy[1], gx[1]), HW(gy[2], gx[2]),
         HW(gy[3], gx[3]), HW(gy[3], gx[3]), seed, 1)

Input(op_def, dw, conv, w, h, b) ==
    [definition |-> op_def, dw_attr |-> dw, conv_attr |-> conv,
     src |-> Source(2, 2, b, dw.weights.shape.i),
     dst |-> Destination(w, h, b, conv.weights.shape.o)]

\* kernel extents and geometry, two channel groups
GeometryInputs ==
    {Input(OpDef("F32", st, FALSE),
           Depthwise(1, kh, kw, MaxCh, MaxCh, gx, gy, "small"),
           GoodConv(1, MaxCh, 1, "small"), 2, 2, 1) :
        kh \in 1..MaxK, kw \in 1..MaxK, gx \in Geoms, gy \in Geoms,
        st \in {"BUFFER", "TEXTURE_2D"}}

PrecisionSeeds ==
    {<<"F32", "ramp">>, <<"F16", "small">>, <<"F32_F16", "big">>, <<"F32", "big">>}

\* channel counts, precisions and values
ChannelInputs ==
    {Input(OpDef(ps[1], st, FALSE),
           Depthwise(1, 1, MaxK, i, i, <<1, 1, 0>>, <<2, 1, 1>>, ps[2]),
           GoodConv(o, i, o, ps[2]), 1, 2, 1) :
        i \in 1..MaxCh, o \in 1..MaxCh, ps \in PrecisionSeeds,
        st \in {"IMAGE_BUFFER", "TEXTURE_ARRAY"}}

\* kernel extents against channel groups, with short and empty biases
LayoutInputs ==
    {Input(OpDef("F32", st, FALSE),
           Depthwise(1, kh, kw, i, IF short THEN i - 1 ELSE i, <<1, 1, 0>>, <<1, 1, 0>>, "ramp"),
           GoodConv(o, i, IF short THEN 0 ELSE o, "ramp"), 1, 1, 1) :
        kh \in 1..MaxK, kw \in 1..MaxK, i \in {1, MaxCh}, o \in {1, MaxCh},
        short \in BOOLEAN, st \in {"TEXTURE_3D", "SINGLE_TEXTURE_2D"}}

\* pointwise input channels that differ from the depthwise channels
MismatchInputs ==
    {Input(OpDef("F32", "BUFFER", FALSE),
           Depthwise(1, 1, 1, ch[1], ch[1], <<1, 1, 0>>, <<1, 1, 0>>, "small"),
           GoodConv(o, ch[2], o, "small"), 1, 1, 1) :
        ch \in {<<MaxCh, 1>>, <<1, MaxCh>>, <<2, 3>>}, o \in {1, MaxCh}}

\* destination extents and batches
BatchInputs ==
    {Input(OpDef("F32", st, hb[1]),
           Depthwise(1, 1, 2, 1, 1, <<2, 1, 1>>, <<1, 1, 0>>, "small"),
           GoodConv(1, 1, 1, "small"), w, h, hb[2]) :
        w \in 1..MaxW, h \in 1..MaxH,
        hb \in {<<FALSE, 1>>} \cup ({TRUE} \X (1..MaxB)),
        st \in {"BUFFER", "TEXTURE_2D"}}

\* spec scenario A: depthwise 3x3, stride 1, dilation 1, padding 1, 8 channels;
\* pointwise 8 -> 16
ScenarioA ==
    Input(OpDef("F32", "TEXTURE_2D", FALSE),
          Depthwise(1, 3, 3, 8, 8, <<1, 1, 1>>, <<1, 1, 1>>, "ramp"),
          GoodConv(16, 8, 16, "ramp"), 2, 2, 1)

\* pairs the checker rejects
RejectedInputs ==
    {Input(OpDef("F32", "BUFFER", FALSE),
           Depthwise(2, 1, 1, 1, 2, <<1, 1, 0>>, <<1, 1, 0>>, "small"),
           GoodConv(1, 2, 1, "small"), 1, 1, 1),
     Input(OpDef("F32", "BUFFER", FALSE),
           Depthwise(1, 1, 1, 1, 1, <<1, 1, 0>>, <<1, 1, 0>>, "small"),
           Attr(OHWI(1, 1, 1, 1), 1, HW(2, 2), HW(1, 1), HW(0, 0), HW(0, 0), "small", -1),
           1, 1, 1)}

Inputs ==
    GeometryInputs \cup ChannelInputs \cup LayoutInputs \cup MismatchInputs
        \cup BatchInputs \cup {ScenarioA} \cup RejectedInputs

\* what an out-of-bounds read can return
Garbage == {0, 3}

-----------------------------------------------------------------------------
(* The state machine: the caller checks the pair, creates the operation    *)
(* when the pair is supported, and the kernel is dispatched work item by   *)
(* work item over the global size.                                         *)

NoItem == [gid0 |-> -1, gid1 |-> -1, returned |-> FALSE, const_reads |-> <<>>,
           src_reads |-> 0, writes |-> <<>>, oob |-> FALSE]

Init ==
    \E inp \in Inputs :
        /\ pc = "start"
        /\ definition = inp.definition
        /\ dw_attr = inp.dw_attr
        /\ conv_attr = inp.conv_attr
        /\ src_ = inp.src
        /\ dst_ = inp.dst
        /\ supported = FALSE
        /\ result = EmptyOperation
        /\ status = "None"
        /\ ghost = [calls |-> 0, outcome |-> "None", gpu_data |-> <<>>, capacity |-> 0,
                    weights_counter |-> 0]
        /\ gid = 0
        /\ last = NoItem

\* the caller asks IsDepthwiseConvPlus1x1ConvSupported and fuses only if it holds
CheckSupported ==
    /\ pc = "start"
    /\ supported' = IsDepthwiseConvPlus1x1ConvSupported(dw_attr, conv_attr)
    /\ pc' = IF supported' THEN "create" ELSE "unfused"
    /\ UNCHANGED <<definition, dw_attr, conv_attr, src_, dst_, result, status, ghost,
                   gid, last>>

\* lines 270-279
CreateDepthwiseConvPlus1x1Conv ==
    /\ pc = "create"
    /\ \E outcome \in BufferOutcomes :
          LET constructed ==
                  MoveAssign(result, Constructor(definition, dw_attr, conv_attr))
              up == UploadWeights(constructed, dw_attr, conv_attr, outcome)
          IN  /\ result' = up.op
              /\ status' = up.status
              /\ ghost' = [calls |-> ghost.calls + 1,
                           outcome |-> outcome,
                           gpu_data |-> up.gpu_data,
                           capacity |-> up.capacity,
                           weights_counter |->
                               GenerateCode(definition, dw_attr,
                                   DivideRoundUp(conv_attr.weights.shape.o, 4)).weights_counter]
              /\ pc' = IF up.status = "Ok" THEN "dispatch" ELSE "failed"
    /\ UNCHANGED <<definition, dw_attr, conv_attr, src_, dst_, supported, gid, last>>

\* the writes of a work item applied to the destination tensor
RECURSIVE ApplyWrites(_, _)
ApplyWrites(writes, ws) ==
    IF ws = <<>> THEN writes
    ELSE LET w == Head(ws)
             q == <<w.x, w.y, w.b, w.d>>
         IN  ApplyWrites([writes EXCEPT ![q] = Append(@, w)], Tail(ws))

\* one work item (gid0, gid1) of the dispatch runs the kernel
Invoke ==
    /\ pc = "dispatch"
    /\ LET gs == GlobalSize(result, dst_)
           gid0 == gid % gs[1]
           gid1 == gid \div gs[1]
       IN  /\ gid < gs[1] * gs[2]
           /\ \E garbage \in Garbage :
                 LET ctx == [args |-> result.args_,
                             precision |-> result.definition_.precision,
                             constants |-> result.args_.constants.buffer,
                             src |-> src_, dst_shape |-> dst_.shape,
                             garbage |-> garbage, gid0 |-> gid0, gid1 |-> gid1]
                     env == Exec(result.code_, WorkItem, ctx)
                 IN  /\ dst_' = [dst_ EXCEPT !.writes = ApplyWrites(@, env.writes)]
                     /\ last' = [gid0 |-> gid0, gid1 |-> gid1, returned |-> env.returned,
                                 const_reads |-> env.const_reads,
                                 src_reads |-> env.src_reads,
                                 writes |-> env.writes, oob |-> env.oob]
           /\ gid' = gid + 1
           /\ pc' = IF gid + 1 = gs[1] * gs[2] THEN "done" ELSE "dispatch"
    /\ UNCHANGED <<definition, dw_attr, conv_attr, src_, supported, result, status, ghost>>

Next == CheckSupported \/ CreateDepthwiseConvPlus1x1Conv \/ Invoke

Spec == Init /\ [][Next]_vars

-----------------------------------------------------------------------------
(* Vocabulary of the properties. *)

\* the state CreateDepthwiseConvPlus1x1Conv leaves.  Invoke changes neither
\* result nor ghost, so what holds of the packed buffer and of the generated
\* code here holds of them throughout the dispatch.
Created == ghost.calls > 0 /\ gid = 0

\* n rounded up to a multiple of 4
aligned(n) == CHOOSE m \in n..(n + 3) : m % 4 = 0

kh == dw_attr.weights.shape.h
kw == dw_attr.weights.shape.w
dw_channels == dw_attr.weights.shape.i
in_channels == conv_attr.weights.shape.i
out_channels == conv_attr.weights.shape.o

MatchingChannels == in_channels = dw_channels

\* the scalar at 0-based offset k of the packed buffer
Packed(k) == ghost.gpu_data[k + 1]

\* the inputs, zero beyond their extents
DwBias(c) == IF c < dw_attr.bias.shape.v THEN dw_attr.bias.data[c] ELSE 0

DwWeight(y, x, c) ==
    IF c < dw_channels
    THEN dw_attr.weights.data[LinearIndex(dw_attr.weights.shape, 0, y, x, c)]
    ELSE 0

PwBias(o) == IF o < conv_attr.bias.shape.v THEN conv_attr.bias.data[o] ELSE 0

PwWeight(o, c) ==
    IF o < out_channels /\ c < in_channels
    THEN conv_attr.weights.data[LinearIndex(conv_attr.weights.shape, o, 0, 0, c)]
    ELSE 0

\* where the four regions start
DwWeightsStart == aligned(dw_channels)
PwBiasStart == DwWeightsStart + kh * kw * aligned(dw_channels)
PwWeightsStart == PwBiasStart + aligned(out_channels)

IsScenarioAShape ==
    /\ kh = 3 /\ kw = 3 /\ dw_channels = 8 /\ in_channels = 8 /\ out_channels = 16

-----------------------------------------------------------------------------
\* C4: with the pointwise input channels equal to the depthwise channels, the
\* number of scalars UploadWeights packs is
\*   aligned(dw) + kh*kw*aligned(dw) + aligned(out) + (aligned(out)/4)*(aligned(dw)/4)*16,
\* it equals the capacity reserved before packing, and it is 224 for scenario A.
C4_PackedLength ==
    (Created /\ MatchingChannels) =>
        /\ Len(ghost.gpu_data) =
               aligned(dw_channels) + kh * kw * aligned(dw_channels)
                   + aligned(out_channels)
                   + (aligned(out_channels) \div 4) * (aligned(dw_channels) \div 4) * 16
        /\ Len(ghost.gpu_data) = ghost.capacity
        /\ IsScenarioAShape => Len(ghost.gpu_data) = 224

C4_Witness ==
    Created /\ MatchingChannels /\ IsScenarioAShape /\ Len(ghost.gpu_data) = 224

-----------------------------------------------------------------------------
\* C5 as stated: in the pointwise-weights region the scalar at offset
\* ((og*IG + ig)*4 + a)*4 + b is the weight of output channel 4*og + a and input
\* channel 4*ig + b (the input lane varies fastest).
C5_AsStated ==
    Created =>
        LET IG == aligned(in_channels) \div 4
            OG == aligned(out_channels) \div 4
        IN  \A og \in 0..(OG - 1), ig \in 0..(IG - 1), a \in 0..3, b \in 0..3 :
                Packed(PwWeightsStart + ((og * IG + ig) * 4 + a) * 4 + b)
                    = PwWeight(4 * og + a, 4 * ig + b)

\* C5 amended: the region is ordered by (output group, input group, input lane,
\* output lane): the scalar at offset ((og*IG + ig)*4 + b)*4 + a is the weight of
\* output channel 4*og + a and input channel 4*ig + b, zero when either channel
\* is beyond the true count (the output lane varies fastest).
C5_InputLaneThenOutputLane ==
    Created =>
        LET IG == aligned(in_channels) \div 4
            OG == aligned(out_channels) \div 4
        IN  /\ Len(ghost.gpu_data) = PwWeightsStart + 16 * OG * IG
            /\ \A og \in 0..(OG - 1), ig \in 0..(IG - 1), a \in 0..3, b \in 0..3 :
                   Packed(PwWeightsStart + ((og * IG + ig) * 4 + b) * 4 + a)
                       = PwWeight(4 * og + a, 4 * ig + b)

\* two output and two input channels with distinct weights are packed
C5_Witness ==
    /\ Created /\ out_channels >= 2 /\ in_channels >= 2
    /\ PwWeight(0, 1) # PwWeight(1, 0)
    /\ Packed(PwWeightsStart + 1) = PwWeight(1, 0)
    /\ Packed(PwWeightsStart + 4) = PwWeight(0, 1)

-----------------------------------------------------------------------------
\* the positions of the packed buffer that are alignment padding
IsPadding(k) ==
    \/ k < DwWeightsStart /\ k >= dw_attr.bias.shape.v
    \/ k >= DwWeightsStart /\ k < PwBiasStart
           /\ (k - DwWeightsStart) % aligned(dw_channels) >= dw_channels
    \/ k >= PwBiasStart /\ k < PwWeightsStart /\ k - PwBiasStart >= conv_attr.bias.shape.v
    \/ k >= PwWeightsStart
           /\ LET r == k - PwWeightsStart
                  IG == aligned(in_channels) \div 4
              IN  \/ 4 * ((r \div 16) % IG) + ((r \div 4) % 4) >= in_channels
                  \/ 4 * (r \div (16 * IG)) + (r % 4) >= out_channels

\* C6: the packed buffer is the four regions depthwise bias, depthwise weights,
\* pointwise bias, pointwise weights in this order; the depthwise weights are
\* ordered by (kernel_row, kernel_col, channel_group, lane); a scalar whose
\* channel is at or beyond the true channel count (for a bias: the bias length)
\* is zero, every other scalar is the input value; the buffer handed to
\* CreateReadOnlyBuffer holds the same scalars (converted to half unless the
\* precision is F32), the padding exactly zero in both precisions.
C6_RegionsAndZeroFill ==
    Created =>
        LET G == aligned(dw_channels) \div 4
            IG == aligned(in_channels) \div 4
            OG == aligned(out_channels) \div 4
        IN  /\ Len(ghost.gpu_data) = PwWeightsStart + 16 * OG * IG
            /\ \A c \in 0..(aligned(dw_channels) - 1) : Packed(c) = DwBias(c)
            /\ \A y \in 0..(kh - 1), x \in 0..(kw - 1), d \in 0..(G - 1), i \in 0..3 :
                   Packed(DwWeightsStart + ((y * kw + x) * G + d) * 4 + i)
                       = DwWeight(y, x, 4 * d + i)
            /\ \A o \in 0..(aligned(out_channels) - 1) : Packed(PwBiasStart + o) = PwBias(o)
            /\ \A r \in 0..(16 * OG * IG - 1) :
                   Packed(PwWeightsStart + r) =
                       PwWeight(4 * (r \div (16 * IG)) + (r % 4),
                                4 * ((r \div 16) % IG) + ((r \div 4) % 4))
            /\ \A k \in 0..(Len(ghost.gpu_data) - 1) : IsPadding(k) => Packed(k) = 0
            /\ status = "Ok" =>
                   LET buffer == result.args_.constants.buffer
                   IN  /\ Len(buffer) = Len(ghost.gpu_data)
                       /\ \A k \in 0..(Len(buffer) - 1) :
                              /\ IsPadding(k) => buffer[k + 1] = 0
                              /\ buffer[k + 1] =
                                     IF definition.precision = "F32" THEN Packed(k)
                                     ELSE ToHalf(Packed(k))

\* a buffer with padding lanes, a short bias and more than one kernel row,
\* kernel column and channel group was packed
C6_Witness ==
    /\ Created /\ status = "Ok"
    /\ kh >= 2 /\ kw >= 2 /\ dw_channels > 4 /\ dw_channels % 4 # 0
    /\ dw_attr.bias.shape.v < dw_channels
    /\ Packed(DwWeightsStart + ((1 * kw + 0) * 2 + 1) * 4 + 0) = DwWeight(1, 0, 4)
    /\ DwWeight(1, 0, 4) # DwWeight(0, 1, 4)
    /\ Packed(PwWeightsStart - 1) = 0

-----------------------------------------------------------------------------
(* The constants[...] references of the generated code. *)

\* the statements of code_ that name constants[k], in emission order
References == SelectSeq(result.code_, ReadsConstants)

\* the position in code_ of the j-th reference
RECURSIVE PositionOf(_, _, _)
PositionOf(code, j, from) ==
    IF ReadsConstants(code[from])
    THEN IF j = 1 THEN from ELSE PositionOf(code, j - 1, from + 1)
    ELSE PositionOf(code, j, from + 1)

\* the index carried by the last statement op before position i of code_
RECURSIVE LastIndex(_, _, _)
LastIndex(code, op, i) ==
    IF i = 0 THEN -1
    ELSE IF code[i].op = op THEN code[i].d ELSE LastIndex(code, op, i - 1)

\* the packed element (4 scalars) at element index k
PackedElement(k) == FLT4(Packed(4 * k), Packed(4 * k + 1), Packed(4 * k + 2), Packed(4 * k + 3))

\* the role the statement at position i of code_ gives the element it names,
\* as the element that role needs
RoleElement(code, i) ==
    LET st == code[i]
    IN  CASE st.op = "dw_init" ->
                 [l \in 1..4 |-> DwBias(4 * st.d + l - 1)]
          [] st.op = "dw_acc" ->
                 [l \in 1..4 |-> DwWeight(LastIndex(code, "y_c", i), LastIndex(code, "x_c", i),
                                          4 * st.d + l - 1)]
          [] st.op = "conv_init" ->
                 [l \in 1..4 |-> PwBias(4 * st.d + l - 1)]
          [] OTHER ->
                 [l \in 1..4 |-> PwWeight(4 * st.d + l - 1, 4 * st.s + Lane(st.op) - 1)]

\* the order of the roles: bias groups, depthwise weights by (row, col, group),
\* pointwise bias groups, pointwise weights by (output group, input group, lane)
RoleRank(code, i) ==
    LET st == code[i]
        G == aligned(dw_channels) \div 4
        OG == aligned(out_channels) \div 4
    IN  CASE st.op = "dw_init" -> st.d
          [] st.op = "dw_acc" ->
                 G + (LastIndex(code, "y_c", i) * kw + LastIndex(code, "x_c", i)) * G + st.d
          [] st.op = "conv_init" -> G + kh * kw * G + st.d
          [] OTHER -> G + kh * kw * G + OG + (st.d * G + st.s) * 4 + Lane(st.op) - 1

\* C2: with the pointwise input channels equal to the depthwise channels, the
\* constants[...] references of the generated code carry 0, 1, 2, ... in
\* emission order, their number is the number of packed elements (groups of
\* 4 scalars), and the k-th reference has the role of the k-th packed element:
\* depthwise bias groups, depthwise weights by (row, col, group), pointwise bias
\* groups, pointwise weights by (output group, input group, lane).
C2_ReferencesMatchPacking ==
    (Created /\ MatchingChannels) =>
        LET refs == References
        IN  /\ \A j \in 1..Len(refs) : refs[j].k = j - 1
            /\ 4 * Len(refs) = Len(ghost.gpu_data)
            /\ ghost.weights_counter = Len(refs)
            /\ \A j \in 1..Len(refs) :
                   LET i == PositionOf(result.code_, j, 1)
                   IN  /\ RoleRank(result.code_, i) = j - 1
                       /\ RoleElement(result.code_, i) = PackedElement(j - 1)

\* code with several kernel positions, channel groups and output groups was
\* generated against a buffer of distinct weights
C2_Witness ==
    /\ Created /\ MatchingChannels
    /\ kh >= 2 /\ kw >= 2 /\ dw_channels > 4 /\ out_channels > 4
    /\ Len(References) = 2 + kh * kw * 2 + 2 + 16
    /\ References[Len(References)].k = Len(ghost.gpu_data) \div 4 - 1
    /\ PwWeight(0, 1) # PwWeight(1, 0)

-----------------------------------------------------------------------------
Count(code, ops) == Len(SelectSeq(code, LAMBDA st : st.op \in ops))

ClampOps == {"decl_x_in_y_in", "x_in", "x_clamp", "y_in", "y_clamp", "read_masked"}

ConvAccOps == {"conv_acc_x", "conv_acc_y", "conv_acc_z", "conv_acc_w"}

\* C9: GenerateCode emits kh*kw*G source fetches (G the number of intermediate
\* channel groups), each followed at once by the accumulate into the dw_res of
\* the same group; in-bounds flags, clamps and the in-bounds multiplier are
\* emitted iff the source storage type is BUFFER or IMAGE_BUFFER, and then one
\* flag and one clamp per row, one per (row, col) and a multiplier on every
\* fetch; each output group's Write is emitted once, after all 4*G accumulates
\* into that group's accumulator.
C9_StatementCounts ==
    Created =>
        LET code == result.code_
            G == aligned(dw_channels) \div 4
            OG == aligned(out_channels) \div 4
            buffer_like == definition.src_storage_type \in {"BUFFER", "IMAGE_BUFFER"}
        IN  /\ Count(code, {"read", "read_masked"}) = kh * kw * G
            /\ (kh = 1 /\ kw = 1) => Count(code, {"read", "read_masked"}) = G
            /\ Count(code, {"dw_acc"}) = kh * kw * G
            /\ \A i \in 1..Len(code) :
                   code[i].op \in {"read", "read_masked"} =>
                       /\ i < Len(code)
                       /\ code[i + 1].op = "dw_acc"
                       /\ code[i + 1].d = code[i].d
            /\ buffer_like <=> Count(code, ClampOps) > 0
            /\ buffer_like =>
                   /\ Count(code, {"read"}) = 0
                   /\ Count(code, {"y_in"}) = kh /\ Count(code, {"y_clamp"}) = kh
                   /\ Count(code, {"x_in"}) = kh * kw /\ Count(code, {"x_clamp"}) = kh * kw
                   /\ Count(code, {"decl_x_in_y_in"}) = 1
            /\ Count(code, {"write"}) = OG
            /\ \A d \in 0..(OG - 1) :
                   \E i \in 1..Len(code) :
                       /\ code[i].op = "write" /\ code[i].d = d
                       /\ \A j \in 1..Len(code) :
                              (code[j].op = "write" /\ code[j].d = d) => j = i
                       /\ Cardinality({j \in 1..(i - 1) :
                              code[j].op \in ConvAccOps /\ code[j].d = d}) = 4 * G
                       /\ \A j \in (i + 1)..Len(code) :
                              ~(code[j].op \in ConvAccOps /\ code[j].d = d)

\* code for an IMAGE_BUFFER source with more than one channel group
C9_Witness ==
    /\ Created /\ definition.src_storage_type = "IMAGE_BUFFER"
    /\ dw_channels > 4 /\ out_channels > 4
    /\ Count(result.code_, {"read_masked"}) = kh * kw * 2
    /\ Count(result.code_, {"write"}) = 2

-----------------------------------------------------------------------------
\* C10 as stated: for every pair the checker accepts, the generator's final
\* counter is the number of packed elements, every reference is below it, and
\* no work item reads past the end of the packed buffer.
C10_AsStated ==
    /\ (Created /\ supported) =>
           /\ 4 * ghost.weights_counter = Len(ghost.gpu_data)
           /\ \A j \in 1..Len(References) : 4 * References[j].k + 4 <= Len(ghost.gpu_data)
           /\ DivideRoundUp(in_channels, 4) = DivideRoundUp(dw_channels, 4)
    /\ ~last.oob

-----------------------------------------------------------------------------
\* C7 as stated: when CreateReadOnlyBuffer fails, Create returns that failure
\* after one upload attempt, no "constants" object is registered, and the
\* caller's result object is as it was before the call.
C7_AsStated ==
    pc = "failed" =>
        /\ status = ghost.outcome /\ status # "Ok"
        /\ ghost.calls = 1
        /\ "constants" \notin DOMAIN result.args_
        /\ result.code_ = EmptyOperation.code_
        /\ DOMAIN result.args_ = DOMAIN EmptyOperation.args_

\* C7 amended: when CreateReadOnlyBuffer fails, Create returns that failure
\* unchanged after a single upload attempt and no "constants" object is
\* registered; the caller's result object has by then been overwritten by the
\* newly constructed operation, so it holds the generated source and the
\* tensor and scalar arguments GenerateCode registered, and lacks only the
\* constants; no work item is dispatched.
C7_FailureLeavesConstructedOperation ==
    pc = "failed" =>
        /\ status = ghost.outcome /\ status # "Ok"
        /\ ghost.calls = 1
        /\ "constants" \notin DOMAIN result.args_
        /\ result.code_ = GenerateCode(definition, dw_attr,
                                       DivideRoundUp(out_channels, 4)).c
        /\ result.code_ # <<>>
        /\ DOMAIN result.args_ =
               {"src_tensor", "dst_tensor", "stride_x", "padding_x", "dilation_x",
                "stride_y", "padding_y", "dilation_y"}
        /\ result.work_group_size_ = <<8, 8, 1>>
        /\ gid = 0 /\ last = NoItem

C7_Witness ==
    /\ pc = "failed" /\ status = "InternalError" /\ ghost.calls = 1
    /\ "constants" \notin DOMAIN result.args_ /\ result.code_ # <<>>

-----------------------------------------------------------------------------
(* The fused convolution, computed from the inputs. *)

RECURSIVE SumSeq(_)
SumSeq(q) == IF q = <<>> THEN 0 ELSE Head(q) + SumSeq(Tail(q))

\* term(0) + ... + term(n - 1)
Sum(n, term(_)) == SumSeq([k \in 1..n |-> term(k - 1)])

\* the source sample at (x, y, b, channel c), zero outside the width and height
SrcAt(x, y, b, c) ==
    IF x >= 0 /\ x < src_.shape.w /\ y >= 0 /\ y < src_.shape.h
    THEN src_.data[<<x, y, b, c \div 4>>][(c % 4) + 1]
    ELSE 0

\* depthwise result at output pixel (X, Y) of batch b, channel c
DepthwiseAt(X, Y, b, c) ==
    DwBias(c) +
    Sum(kh, LAMBDA ky : Sum(kw, LAMBDA kx :
        DwWeight(ky, kx, c) *
        SrcAt(X * dw_attr.strides.w - dw_attr.padding.prepended.w + kx * dw_attr.dilations.w,
              Y * dw_attr.strides.h - dw_attr.padding.prepended.h + ky * dw_attr.dilations.h,
              b, c)))

\* pointwise result at output pixel (X, Y) of batch b, output channel o
FusedAt(X, Y, b, o) ==
    PwBias(o) + Sum(dw_channels, LAMBDA c : PwWeight(o, c) * DepthwiseAt(X, Y, b, c))

MaxAbs(f) == IF DOMAIN f = {} THEN 0
             ELSE CHOOSE m \in {Abs(f[k]) : k \in DOMAIN f} :
                      \A k \in DOMAIN f : Abs(f[k]) <= m

MaxAbsSrc ==
    LET all == {Abs(src_.data[q][l]) : q \in DOMAIN src_.data, l \in 1..4}
    IN  CHOOSE m \in all : \A v \in all : v <= m

\* the largest magnitude any input or partial sum of the kernel can take
WorstCase ==
    MaxAbs(conv_attr.bias.data)
        + aligned(in_channels) * MaxAbs(conv_attr.weights.data)
            * (MaxAbs(dw_attr.bias.data) + kh * kw * MaxAbs(dw_attr.weights.data) * MaxAbsSrc)

\* the inputs are integers bounded so that every input and every partial sum
\* of the kernel is exactly representable in the kernel's float type
BoundedInputs ==
    LET limit == IF definition.precision = "F32" THEN Float32Exact ELSE Pow2(11)
    IN  /\ WorstCase <= limit
        /\ MaxAbs(dw_attr.bias.data) <= limit
        /\ MaxAbs(dw_attr.weights.data) <= limit

\* C3: for an eligible pair with matching channel counts and bounded
\* integer-valued inputs, every work item inside the destination writes, for
\* every output group, at its pixel (X, Y) and batch the fused convolution
\*   pw_bias[o] + sum_c pw_weight[o, c] * (dw_bias[c] + sum_(ky, kx) dw_weight[ky, kx, c]
\*       * src[X*stride_x - pad_x + kx*dilation_x, Y*stride_y - pad_y + ky*dilation_y, c])
\* with source samples outside the source counted as zero, for storage types
\* with manual clamping and with zero-padded addressing alike; the lanes beyond
\* the true output channel count are zero.
C3_KernelComputesFusedConvolution ==
    (supported /\ MatchingChannels /\ BoundedInputs) =>
        \A n \in 1..Len(last.writes) :
            LET w == last.writes[n]
            IN  \A l \in 1..4 :
                    w.v[l] = IF 4 * w.d + l - 1 < out_channels
                             THEN FusedAt(w.x, w.y, w.b, 4 * w.d + l - 1)
                             ELSE 0

\* a half-precision work item on an IMAGE_BUFFER source whose window leaves
\* the source wrote a pixel the depthwise stage contributed to
C3_Witness ==
    /\ supported /\ MatchingChannels /\ BoundedInputs
    /\ definition.precision = "F16" /\ definition.src_storage_type = "IMAGE_BUFFER"
    /\ Len(last.writes) >= 1
    /\ last.writes[1].v[1] = FusedAt(last.writes[1].x, last.writes[1].y, last.writes[1].b, 0)
    /\ last.writes[1].v[1] # PwBias(0)
    /\ last.writes[1].y * dw_attr.strides.h - dw_attr.padding.prepended.h < 0

-----------------------------------------------------------------------------
\* C8: GetGridSize is (width * batch, height, 1); with X = id / batch and
\* B = id % batch under a batch axis, X = id otherwise, the work items of that
\* grid write every output position (x, y, b) exactly once, and a work item
\* with X >= width or Y >= height returns before any constants read, source
\* read or destination write.
C8_GridCoversOutputOnce ==
    LET w == dst_.shape.w
        h == dst_.shape.h
        b == dst_.shape.b
        grid == GetGridSize(dst_)
        X == IF definition.dst_has_batch THEN last.gid0 \div b ELSE last.gid0
        B == IF definition.dst_has_batch THEN last.gid0 % b ELSE 0
        Y == last.gid1
    IN  /\ grid = <<w * b, h, 1>>
        /\ last.gid0 >= 0 =>
               /\ last.returned <=> (X >= w \/ Y >= h)
               /\ last.returned =>
                      last.const_reads = <<>> /\ last.src_reads = 0 /\ last.writes = <<>>
               /\ ~last.returned =>
                      /\ last.gid0 < grid[1] /\ last.gid1 < grid[2]
                      /\ Len(last.writes) = DivideRoundUp(out_channels, 4)
                      /\ \A n \in 1..Len(last.writes) :
                             /\ last.writes[n].x = X /\ last.writes[n].y = Y
                             /\ last.writes[n].b = B /\ last.writes[n].d = n - 1
        /\ \A q \in DOMAIN dst_.writes :
               /\ Len(dst_.writes[q]) <= 1
               /\ pc = "done" => Len(dst_.writes[q]) = 1
               /\ \A n \in 1..Len(dst_.writes[q]) :
                      dst_.writes[q][n].gid0 < grid[1] /\ dst_.writes[q][n].gid1 < grid[2]

\* a batched dispatch over more than one pixel and batch ended, its last work
\* item outside the destination
C8_Witness ==
    /\ pc = "done" /\ definition.dst_has_batch
    /\ dst_.shape.b >= 2 /\ dst_.shape.w >= 2 /\ dst_.shape.h >= 2
    /\ last.returned /\ last.writes = <<>>
    /\ \A q \in DOMAIN dst_.writes : Len(dst_.writes[q]) = 1

-----------------------------------------------------------------------------
(* The eligibility check on its own, over pairs around its thresholds. *)

\* a pointwise convolution that breaks legality condition defect (0: none)
ConvWithDefect(o, i, defect) ==
    Attr(OHWI(o, IF defect = 1 THEN 2 ELSE 1, IF defect = 2 THEN 2 ELSE 1, i), o,
         HW(IF defect = 3 THEN 2 ELSE 1, IF defect = 4 THEN 2 ELSE 1),
         HW(IF defect = 5 THEN 2 ELSE 1, IF defect = 6 THEN 2 ELSE 1),
         HW(IF defect = 7 THEN 1 ELSE 0, IF defect = 8 THEN 1 ELSE 0),
         HW(IF defect = 9 THEN 1 ELSE 0, IF defect = 10 THEN 1 ELSE 0), "small", -1)

ThresholdInputs ==
    {Input(OpDef("F32", "TEXTURE_2D", FALSE),
           Depthwise(m, k[1], k[2], i, i, <<1, 1, 1>>, <<1, 1, 1>>, "small"),
           ConvWithDefect(o, ci, defect), 1, 1, 1) :
        m \in {1, 2}, k \in {<<1, 1>>, <<3, 3>>, <<3, 4>>, <<4, 4>>},
        i \in {8, 12, 16, 17}, ci \in {8, 16, 17}, o \in {16, 32, 33, 40},
        defect \in 0..10}

InitThreshold ==
    \E inp \in ThresholdInputs :
        /\ pc = "start"
        /\ definition = inp.definition
        /\ dw_attr = inp.dw_attr
        /\ conv_attr = inp.conv_attr
        /\ src_ = inp.src
        /\ dst_ = inp.dst
        /\ supported = FALSE
        /\ result = EmptyOperation
        /\ status = "None"
        /\ ghost = [calls |-> 0, outcome |-> "None", gpu_data |-> <<>>, capacity |-> 0,
                    weights_counter |-> 0]
        /\ gid = 0
        /\ last = NoItem

NextThreshold == CheckSupported

SpecThreshold == InitThreshold /\ [][NextThreshold]_vars

HardLegal ==
    /\ dw_attr.weights.shape.o = 1
    /\ conv_attr.weights.shape.h = 1 /\ conv_attr.weights.shape.w = 1
    /\ conv_attr.strides.h = 1 /\ conv_attr.strides.w = 1
    /\ conv_attr.dilations.h = 1 /\ conv_attr.dilations.w = 1
    /\ conv_attr.padding.prepended.h = 0 /\ conv_attr.padding.prepended.w = 0
    /\ conv_attr.padding.appended.h = 0 /\ conv_attr.padding.appended.w = 0

SoftDepthwise == dw_channels <= 16 /\ dw_channels * kh * kw <= 144

SoftPointwise == out_channels <= 32 /\ in_channels * out_channels <= 512

\* C1: IsDepthwiseConvPlus1x1ConvSupported returns true iff the depthwise output
\* multiplier is 1, the pointwise kernel is 1x1 with stride 1, dilation 1 and
\* all four paddings 0, depthwise channels <= 16 with channels*kh*kw <= 144, and
\* pointwise output channels <= 32 with in*out <= 512.  So a legal pair that
\* breaks a soft bound is rejected (scenario B: 40 output channels), a
\* multiplier of 2 is rejected whatever else holds (scenario C), and scenario A
\* (3x3 depthwise, 8 channels, pointwise 8 -> 16) is accepted.
C1_SupportedIff ==
    pc # "start" =>
        /\ supported <=> (HardLegal /\ SoftDepthwise /\ SoftPointwise)
        /\ (HardLegal /\ ~(SoftDepthwise /\ SoftPointwise)) => ~supported
        /\ (HardLegal /\ SoftDepthwise /\ out_channels = 40) => ~supported
        /\ dw_attr.weights.shape.o = 2 => ~supported
        /\ (HardLegal /\ IsScenarioAShape) => supported

\* the pair on both thresholds (16 channels, 3x3, 16 -> 32) was accepted
C1_Witness ==
    /\ pc # "start" /\ supported
    /\ dw_channels = 16 /\ kh = 3 /\ kw = 3 /\ in_channels = 16 /\ out_channels = 32

====
